---- MODULE Spec2Model ----
(***************************************************************************)
(* The client-side dependency manager of django-components               *)
(* (src/django_components_js/src/manager.ts, createComponentsManager):    *)
(* the registries of component callbacks and data factories, the ordered  *)
(* queue of pending component calls with its serial processor             *)
(* (_processPendingCalls), the promise-completion map, and the envelope    *)
(* ingestion (_loadComponentScripts) that feeds them.                     *)
(*                                                                         *)
(* JavaScript runs one job at a time.  An action of this module is one    *)
(* job: a call of the public API, or one continuation (a promise reaction,*)
(* the resumption of an `await`).  An async function runs synchronously   *)
(* up to its first `await`, so the synchronous prefix of a drain belongs  *)
(* to the action that called it.                                          *)
(***************************************************************************)
EXTENDS Naturals, Sequences, FiniteSets, TLC

\* ------------------------------------------------------------------ values

\* JavaScript's null and undefined, and the "no entry" answer of Map.has.
null == "<null>"
undefined == "<undefined>"
ABSENT == "<absent>"

\* Bounds of the model.
MaxCalls == 2
MaxCallbacks == 2
MaxEnvelopes == 2
MaxWaits == 2
\* The number of calls in the behaviours that call one tuple repeatedly.
MaxSameCalls == 3

\* Input domains.
Classes == {"x", "y"}
Insts == {"1", "2"}
Hashes == {"h1"}
Datas == {"d1", "d2"}
Promises == {"p1", "p2"}
Urls == {"/a.js"}
\* What a wait-promise may be rejected with: an Error, or the values
\* `reject(null)` and `reject()` pass on.
RejectValues == {"Error", null, undefined}
\* The (class id, instance id, data hash) triples that get called: a class
\* without data, a class with data, and an instance with no element.
CallInputs == {<<"x", "1", null>>, <<"y", "1", "h1">>, <<"x", "2", null>>}
\* The same, and a call with a data hash for an instance with no element.
ElementCallInputs == CallInputs \cup {<<"y", "2", "h1">>}
\* The (class id, data hash) pairs that get a data factory.
DataInputs == {<<"y", "h1">>}
\* The instances that have an element in the document.
InitialElements == {"1"}
\* The decoded envelopes that get ingested: a fragment that brings the data
\* of y, fetches a stylesheet and a script, and calls y; and a page whose
\* assets are inlined and that calls x.
EnvelopeInputs ==
    {[componentJsVars |-> << <<"y", "h1", "d1">> >>,
      cssUrls__markAsLoaded |-> <<>>,
      jsUrls__markAsLoaded |-> <<>>,
      cssTags__toFetch |-> << [tag |-> "link", url |-> "/a.css"] >>,
      jsTags__toFetch |-> << [tag |-> "script", url |-> "/a.js"] >>,
      componentJsCalls |-> << <<"y", "1", "h1">> >>],
     [componentJsVars |-> <<>>,
      cssUrls__markAsLoaded |-> << "/a.css" >>,
      jsUrls__markAsLoaded |-> << "/a.js" >>,
      cssTags__toFetch |-> <<>>,
      jsTags__toFetch |-> <<>>,
      componentJsCalls |-> << <<"x", "1", null>> >>]}

\* A decoded envelope whose to-fetch stylesheet descriptor is not a `link`
\* descriptor; its script descriptor and its call are in order.
BadTagEnvelopeInputs ==
    {[componentJsVars |-> <<>>,
      cssUrls__markAsLoaded |-> <<>>,
      jsUrls__markAsLoaded |-> <<>>,
      cssTags__toFetch |-> << [tag |-> "script", url |-> "/a.css"] >>,
      jsTags__toFetch |-> << [tag |-> "script", url |-> "/a.js"] >>,
      componentJsCalls |-> << <<"x", "1", null>> >>]}

\* The urls and kinds handed to the asset API; "img" is no kind.
AssetUrls == {"/a.js", "/a.css"}
Kinds == {"js", "css"}
KindInputs == Kinds \cup {"img"}
UrlListInputs == {<< "/a.js" >>, << "/a.js", "/a.css" >>}
\* Urls handed to waitForScriptsToLoad, one of which reads like the key
\* `type:url` of the other: the url is an opaque string to the manager.
WaiterUrls == {"/a.js", "js:/a.js"}
\* Tag descriptors handed to loadJs and loadCss: with and without a url.
TagInputs ==
    {[tag |-> "script", url |-> "/a.js"], [tag |-> "script", url |-> undefined],
     [tag |-> "link", url |-> "/a.css"], [tag |-> "link", url |-> undefined]}

\* The identities a call may get.
CallSlots == 1..(IF MaxCalls > MaxSameCalls THEN MaxCalls ELSE MaxSameCalls)

\* The combined promise that the n-th envelope attaches to its calls.
EnvPromise(n) == "e" \o ToString(n)
EnvPromises == {EnvPromise(n) : n \in 1..MaxEnvelopes}
AllPromises == Promises \cup EnvPromises

\* ------------------------------------------------------------------- state

VARIABLES
    components,               \* class id -> list of callbacks
    componentInputs,          \* "cls:hash" -> data factory (undefined: none)
    pendingComponentCalls,    \* the queue: PendingCall objects, by identity
    isProcessingPendingCalls, \* the drain guard
    warningIntervalId,        \* null, or the handle of the stall timer
    promiseCompletionStatus,  \* call key -> ABSENT | null | rejection value
    loadedJs,                 \* urls marked loaded, kind js
    loadedCss,                \* urls marked loaded, kind css
    calls,                    \* every PendingCall created so far, by identity
    callPromise,              \* state of the promise queueComponentCall returned
    promises,                 \* state of the wait-promises
    reactions,                \* calls whose then/catch reaction has not run yet
    drains,                   \* the suspended invocations of _processPendingCalls
    elements,                 \* instance ids that have an element in the document
    body,                     \* urls of the script nodes appended to <body>
    head,                     \* urls of the link nodes appended to <head>
    onloadFired,              \* appended scripts whose load event has fired
    envelopes,                \* number of envelopes ingested
    started,                  \* history: calls in the order execution started
    invoked,                  \* history: callback invocations, in order
    thrown,                   \* history: errors thrown by drain calls, in order
    pendingScripts,           \* map key -> 0 (no entry) or the waiter entry set
    entries,                  \* waiter entries created so far: resolved or not
    waits,                    \* the calls of waitForScriptsToLoad made so far
    returned,                 \* what the last call of the asset API returned
    ingested,                 \* history: the envelopes ingested, in order
    dataCalls,                \* history: the invocations of data factories
    lastResult,               \* call -> `lastResult` of its execution (line 600)
    callValue,                \* call -> what its promise was settled with
    activeIntervals,          \* number of intervals set and not cleared
    callsAtStart,             \* history: call -> calls made when it started
    fnsAtStart,               \* history: call -> callbacks of its class when it started
    diagnostic,               \* what the last tick of the stall timer logged
    onerrorFired              \* urls of appended scripts whose error event has fired

vars == <<components, componentInputs, pendingComponentCalls,
          isProcessingPendingCalls, warningIntervalId, promiseCompletionStatus,
          loadedJs, loadedCss, calls, callPromise, promises, reactions, drains,
          elements, body, head, onloadFired, envelopes, started, invoked, thrown,
          pendingScripts, entries, waits, returned, ingested, dataCalls,
          lastResult, callValue, activeIntervals, callsAtStart,
          fnsAtStart,
          diagnostic,
          onerrorFired>>

\* The manager's state as one value, so that a handler is a function of it.
Mgr ==
    [components |-> components,
     componentInputs |-> componentInputs,
     pendingComponentCalls |-> pendingComponentCalls,
     isProcessingPendingCalls |-> isProcessingPendingCalls,
     warningIntervalId |-> warningIntervalId,
     promiseCompletionStatus |-> promiseCompletionStatus,
     loadedJs |-> loadedJs,
     loadedCss |-> loadedCss,
     calls |-> calls,
     callPromise |-> callPromise,
     promises |-> promises,
     reactions |-> reactions,
     drains |-> drains,
     body |-> body,
     head |-> head,
     envelopes |-> envelopes,
     started |-> started,
     invoked |-> invoked,
     thrown |-> thrown,
     pendingScripts |-> pendingScripts,
     entries |-> entries,
     waits |-> waits,
     returned |-> returned,
     ingested |-> ingested,
     dataCalls |-> dataCalls,
     lastResult |-> lastResult,
     callValue |-> callValue,
     activeIntervals |-> activeIntervals,
     callsAtStart |-> callsAtStart,
     fnsAtStart |-> fnsAtStart,
     diagnostic |-> diagnostic,
     onerrorFired |-> onerrorFired,
     \* Not state: the exception the running handler has thrown ("none": none),
     \* and the urls whose load event the promises loadJs returned wait for.
     exc |-> "none",
     awaited |-> {}]

Commit(m) ==
    /\ components' = m.components
    /\ componentInputs' = m.componentInputs
    /\ pendingComponentCalls' = m.pendingComponentCalls
    /\ isProcessingPendingCalls' = m.isProcessingPendingCalls
    /\ warningIntervalId' = m.warningIntervalId
    /\ promiseCompletionStatus' = m.promiseCompletionStatus
    /\ loadedJs' = m.loadedJs
    /\ loadedCss' = m.loadedCss
    /\ calls' = m.calls
    /\ callPromise' = m.callPromise
    /\ promises' = m.promises
    /\ reactions' = m.reactions
    /\ drains' = m.drains
    /\ body' = m.body
    /\ head' = m.head
    /\ envelopes' = m.envelopes
    /\ started' = m.started
    /\ invoked' = m.invoked
    /\ thrown' = m.thrown
    /\ pendingScripts' = m.pendingScripts
    /\ entries' = m.entries
    /\ waits' = m.waits
    /\ returned' = m.returned
    /\ ingested' = m.ingested
    /\ dataCalls' = m.dataCalls
    /\ lastResult' = m.lastResult
    /\ callValue' = m.callValue
    /\ activeIntervals' = m.activeIntervals
    /\ callsAtStart' = m.callsAtStart
    /\ fnsAtStart' = m.fnsAtStart
    /\ diagnostic' = m.diagnostic
    /\ onerrorFired' = m.onerrorFired

\* ------------------------------------------------------------------- keys

_getCallKey(compClsId, compId, jsVarsHash) ==
    compClsId \o ":" \o compId \o ":"
        \o (IF jsVarsHash = null THEN "null" ELSE jsVarsHash)

dataKey(compClsId, jsVarsHash) == compClsId \o ":" \o jsVarsHash

CallKeys ==
    {_getCallKey(c, i, h) : c \in Classes, i \in Insts, h \in Hashes \cup {null}}
DataKeys == {dataKey(c, h) : c \in Classes, h \in Hashes}

callKeyOf(call) == _getCallKey(call.compClsId, call.compId, call.jsVarsHash)

\* --------------------------------------------------- readiness (lines 314-348)

\* Map.has and Map.get of promiseCompletionStatus.
statusHas(m, key) == m.promiseCompletionStatus[key] # ABSENT
statusGet(m, key) ==
    IF m.promiseCompletionStatus[key] = ABSENT
    THEN undefined
    ELSE m.promiseCompletionStatus[key]

\* `!initFns || initFns.length === 0`: no callback registered for the class.
noCallbacks(m, compClsId) == Len(m.components[compClsId]) = 0

\* `jsVarsHash != null` and `!componentInputs[dataKey]`: the factory is missing.
noDataFactory(m, compClsId, jsVarsHash) ==
    /\ jsVarsHash # null
    /\ m.componentInputs[dataKey(compClsId, jsVarsHash)] = undefined

\* `if (call.waitForPromise)`: the recorded status is not "ended successfully".
waitNotDone(m, call) ==
    /\ call.waitForPromise # undefined
    /\ LET status == statusGet(m, callKeyOf(call))
       IN  status = undefined \/ status # null

\* A readiness test that forgets the data factory.
_isCallBlocked_noFactory(m, call) ==
    \/ noCallbacks(m, call.compClsId)
    \/ waitNotDone(m, call)


_isCallBlocked(m, call) ==
    \/ noCallbacks(m, call.compClsId)
    \/ noDataFactory(m, call.compClsId, call.jsVarsHash)
    \/ waitNotDone(m, call)

\* ------------------------------------------ one execution (lines 558-609)

\* A suspended drain: the call it executes, the position in initFns of the
\* callback whose result it awaits (0: none was invoked), the data object,
\* and where it is suspended:
\*   "callback": callUnblockedComponent awaits the result of callback `index`;
\*   "return":   callUnblockedComponent has settled (`outcome`: "ok", or the
\*               error it threw) and the drain's own await has not resumed yet.
Frame(id, index, data, at, outcome) ==
    [call |-> id, index |-> index, data |-> data, at |-> at, outcome |-> outcome]

\* callWithAsyncErrorHandling(initFn, [data, ctx]): the callback is invoked
\* now, synchronously; its result is awaited by the caller.
invokeCallback(m, id, index, data) ==
    [m EXCEPT !.invoked = Append(@,
        [call |-> id,
         fn |-> m.components[m.calls[id].compClsId][index],
         index |-> index,
         data |-> data])]

\* The object the callbacks get: `{}`, or what the factory returns.
dataFor(m, call) ==
    IF call.jsVarsHash = null
    THEN "{}"
    ELSE m.componentInputs[dataKey(call.compClsId, call.jsVarsHash)]

\* Line 590: `data = dataFactory()`, the one place a factory is invoked.
invokeFactory(m, id) ==
    LET call == m.calls[id]
    IN  IF call.jsVarsHash = null
        THEN m
        ELSE [m EXCEPT !.dataCalls = Append(@,
                 [call |-> id,
                  factory |-> m.componentInputs[dataKey(call.compClsId,
                                                        call.jsVarsHash)]])]

\* An execution that calls the data factory before it looks for elements.
callUnblockedComponent_factoryFirst(m, id) ==
    LET call == m.calls[id]
        m1 == [m EXCEPT !.started = Append(@, id),
                        !.callsAtStart[id] = Len(m.calls),
                        !.fnsAtStart[id] = Len(m.components[call.compClsId])]
    IN  IF noCallbacks(m, call.compClsId)
        THEN [m1 EXCEPT !.drains = @ \cup {Frame(id, 0, "{}", "return", "NoCallback")}]
        ELSE IF noDataFactory(m, call.compClsId, call.jsVarsHash)
        THEN [m1 EXCEPT !.drains = @ \cup {Frame(id, 0, "{}", "return", "NoDataFactory")}]
        ELSE IF call.compId \notin elements
        THEN [invokeFactory(m1, id) EXCEPT
                 !.drains = @ \cup {Frame(id, 0, "{}", "return", "NoElements")}]
        ELSE LET data == dataFor(m, call)
                 m2 == invokeCallback(invokeFactory(m1, id), id, 1, data)
             IN  [m2 EXCEPT !.drains = @ \cup {Frame(id, 1, data, "callback", "ok")}]

\* callUnblockedComponent up to its first await (or its throw).
callUnblockedComponent(m, id) ==
    LET call == m.calls[id]
        m1 == [m EXCEPT !.started = Append(@, id),
                        !.callsAtStart[id] = Len(m.calls),
                        !.fnsAtStart[id] = Len(m.components[call.compClsId])]
    IN  IF noCallbacks(m, call.compClsId)
        THEN [m1 EXCEPT !.drains = @ \cup {Frame(id, 0, "{}", "return", "NoCallback")}]
        ELSE IF call.compId \notin elements
        THEN [m1 EXCEPT !.drains = @ \cup {Frame(id, 0, "{}", "return", "NoElements")}]
        ELSE IF noDataFactory(m, call.compClsId, call.jsVarsHash)
        THEN [m1 EXCEPT !.drains = @ \cup {Frame(id, 0, "{}", "return", "NoDataFactory")}]
        ELSE LET data == dataFor(m, call)
                 m2 == invokeCallback(invokeFactory(m1, id), id, 1, data)
             IN  [m2 EXCEPT !.drains = @ \cup {Frame(id, 1, data, "callback", "ok")}]

\* --------------------------------------------- the drain (lines 385-456)

\* Lines 396-400: the head has a wait-promise whose recorded status is an error.
headFailed(m, call) ==
    /\ call.waitForPromise # undefined
    /\ statusHas(m, callKeyOf(call))
    /\ statusGet(m, callKeyOf(call)) \notin {null, undefined}

\* A flush that rejects the promises of the calls it drops.
flushQueue_rejecting(m, id) ==
    [m EXCEPT !.pendingComponentCalls = <<>>,
              !.promiseCompletionStatus = [k \in CallKeys |-> ABSENT],
              !.isProcessingPendingCalls = FALSE,
              !.thrown = Append(@, [error |-> "ScriptLoadFailed", call |-> id]),
              !.callPromise =
                  [i \in 1..Len(m.callPromise) |->
                      IF \E n \in 1..Len(m.pendingComponentCalls) :
                             m.pendingComponentCalls[n] = i
                      THEN "rejected"
                      ELSE m.callPromise[i]]]

\* A flush that throws without releasing the guard.
flushQueue_keepGuard(m, id) ==
    [m EXCEPT !.pendingComponentCalls = <<>>,
              !.promiseCompletionStatus = [k \in CallKeys |-> ABSENT],
              !.thrown = Append(@, [error |-> "ScriptLoadFailed", call |-> id])]

\* Lines 401-407: clear the queue and the status map, release the guard, throw.
flushQueue(m, id) ==
    [m EXCEPT !.pendingComponentCalls = <<>>,
              !.promiseCompletionStatus = [k \in CallKeys |-> ABSENT],
              !.isProcessingPendingCalls = FALSE,
              !.thrown = Append(@, [error |-> "ScriptLoadFailed", call |-> id])]

\* Lines 450-453: clearInterval(warningIntervalId), if the queue is empty
\* and there is a handle.
clearWarningInterval(m) ==
    IF Len(m.pendingComponentCalls) = 0 /\ m.warningIntervalId # null
    THEN [m EXCEPT !.warningIntervalId = null, !.activeIntervals = @ - 1]
    ELSE m

\* Lines 449-455: after the loop.
finishDrain(m) ==
    [clearWarningInterval(m) EXCEPT !.isProcessingPendingCalls = FALSE]

\* A drain that reads the head and leaves it in the queue.
shiftQueue_keep(queue) == queue

\* Line 419: pendingComponentCalls.shift().
shiftQueue(queue) == Tail(queue)

\* Lines 419-422: take the head off the queue, and its status entry if it waited.
takeHead(m, id) ==
    [m EXCEPT !.pendingComponentCalls = shiftQueue(@),
              !.promiseCompletionStatus =
                  IF m.calls[id].waitForPromise # undefined
                  THEN [@ EXCEPT ![callKeyOf(m.calls[id])] = ABSENT]
                  ELSE @]

\* One pass of the while loop, from its test to the first await, the break,
\* or the throw.  Executing a call always suspends the drain (line 426), so
\* the synchronous part never takes a second pass.
drainLoop(m) ==
    IF Len(m.pendingComponentCalls) = 0
    THEN finishDrain(m)
    ELSE LET id == Head(m.pendingComponentCalls)
             call == m.calls[id]
         IN  IF headFailed(m, call)
             THEN flushQueue(m, id)
             ELSE IF _isCallBlocked(m, call)
             THEN finishDrain(m)
             ELSE callUnblockedComponent(takeHead(m, id), id)

\* A drain with no re-entrancy guard.
alreadyProcessing_never(m) == FALSE

\* Lines 386-388: the guard.
alreadyProcessing(m) == m.isProcessingPendingCalls

_processPendingCalls(m) ==
    IF alreadyProcessing(m)
    THEN m
    ELSE drainLoop([m EXCEPT !.isProcessingPendingCalls = TRUE])

\* ------------------------------------- the public operations (lines 481-556)

\* A registration of a callback that does not drain the queue.
registerComponent_noDrain(m, compClsId, compFn) ==
    [m EXCEPT !.components[compClsId] = Append(@, compFn)]

\* A registration that replaces the class's callbacks by the new one.
registerComponent_replacing(m, compClsId, compFn) ==
    _processPendingCalls([m EXCEPT !.components[compClsId] = <<compFn>>])

\* Lines 481-492: push the callback, then drain.
registerComponent(m, compClsId, compFn) ==
    _processPendingCalls([m EXCEPT !.components[compClsId] = Append(@, compFn)])

\* A registration that calls the factory at once, to store what it returns.
registerComponentData_eager(m, compClsId, jsVarsHash, dataFactory) ==
    _processPendingCalls(
        [m EXCEPT !.componentInputs[dataKey(compClsId, jsVarsHash)] = dataFactory,
                  !.dataCalls = Append(@, [call |-> 0, factory |-> dataFactory])])

\* A registration of a data factory that does not drain the queue.
registerComponentData_noDrain(m, compClsId, jsVarsHash, dataFactory) ==
    [m EXCEPT !.componentInputs[dataKey(compClsId, jsVarsHash)] = dataFactory]


registerComponentData(m, compClsId, jsVarsHash, dataFactory) ==
    _processPendingCalls(
        [m EXCEPT !.componentInputs[dataKey(compClsId, jsVarsHash)] = dataFactory])

\* An arming that sets a new interval whether or not one is live.
_startWarningInterval_unguarded(m) ==
    [m EXCEPT !.warningIntervalId = "timer", !.activeIntervals = @ + 1]

\* Lines 357-362: arm the stall timer unless it is armed.
_startWarningInterval(m) ==
    IF m.warningIntervalId # null
    THEN m
    ELSE [m EXCEPT !.warningIntervalId = "timer", !.activeIntervals = @ + 1]

\* A report that names the blocked call queued last.
oldestBlocked_last(m, blockedCalls) == blockedCalls[Len(blockedCalls)]

\* Line 369: blockedCalls[0].
oldestBlocked(m, blockedCalls) == blockedCalls[1]

\* Lines 362-377: one tick of the interval.  It filters the queue by
\* _isCallBlocked and, if a call is blocked, logs how many are and which is
\* the first of them; n tells one tick from the next.
warningTick(m) ==
    LET blockedCalls == SelectSeq(m.pendingComponentCalls,
                                  LAMBDA id : _isCallBlocked(m, m.calls[id]))
    IN  [m EXCEPT !.diagnostic =
            IF Len(blockedCalls) > 0
            THEN [n |-> 1 - m.diagnostic.n,
                  count |-> Len(blockedCalls),
                  oldest |-> oldestBlocked(m, blockedCalls)]
            ELSE [n |-> 1 - m.diagnostic.n, count |-> 0, oldest |-> 0]]

\* A queue that takes new calls at its front (a stack).
pushCall_front(queue, id) == <<id>> \o queue

\* Line 539: pendingComponentCalls.push(...).
pushCall(queue, id) == Append(queue, id)

\* queueComponentCall, exported as callComponent.  The then/catch pair on the
\* wait-promise is a pending reaction of the new call; the call itself starts
\* no drain.
queueComponentCall(m, compClsId, compId, jsVarsHash, waitForPromise) ==
    LET id == Len(m.calls) + 1
        m1 == [m EXCEPT
                 !.reactions = IF waitForPromise # undefined THEN @ \cup {id} ELSE @,
                 !.calls = Append(@, [compClsId |-> compClsId,
                                      compId |-> compId,
                                      jsVarsHash |-> jsVarsHash,
                                      waitForPromise |-> waitForPromise]),
                 !.callPromise = Append(@, "pending"),
                 !.pendingComponentCalls = pushCall(@, id)]
    IN  IF Len(m1.pendingComponentCalls) > 0
        THEN _startWarningInterval(m1)
        ELSE m1

\* Lines 523-534: the reaction to the settled wait-promise of call `id`:
\* record null (fulfilled) or the rejection value, then try to drain.
recordCompletion(m, id) ==
    LET p == m.promises[m.calls[id].waitForPromise]
    IN  [m EXCEPT !.promiseCompletionStatus[callKeyOf(m.calls[id])] =
                      IF p.state = "fulfilled" THEN null ELSE p.value,
                  !.reactions = @ \ {id}]

waitReaction(m, id) == _processPendingCalls(recordCompletion(m, id))

\* ------------------------------------------ assets (lines 171-262)

\* A tag descriptor: its `tag` and its `attrs.src` / `attrs.href`.
TagJson(tag, url) == [tag |-> tag, url |-> url]

\* Line 279: the key under which waitForScriptsToLoad stores an entry, and
\* line 245: the key under which markScriptLoaded looks it up.
scriptKey(type, url) == type \o ":" \o url

\* The keys pendingScripts is asked about: the `type:url` keys, and the bare
\* urls of line 276.
PendingKeys ==
    {scriptKey(t, u) : t \in Kinds, u \in AssetUrls \cup WaiterUrls}
        \cup AssetUrls \cup WaiterUrls

pendingHas(m, key) == m.pendingScripts[key] # 0
pendingGet(m, key) == m.pendingScripts[key]

\* Lines 254-258: isScriptLoaded throws on a kind that is neither.
isScriptLoadedThrows(type) == type \notin {"js", "css"}

isScriptLoaded(m, type, url) ==
    IF type = "js" THEN url \in m.loadedJs ELSE url \in m.loadedCss

\* Lines 245-248: the entry stored under `type:url`, if any, is resolved.
resolveEntry(m, type, url) ==
    IF pendingHas(m, scriptKey(type, url))
    THEN [m EXCEPT !.entries[pendingGet(m, scriptKey(type, url))] = TRUE]
    ELSE m

\* A mark that puts the url into the sets of both kinds.
addLoaded_bothKinds(m, type, url) ==
    [m EXCEPT !.loadedJs = @ \cup {url}, !.loadedCss = @ \cup {url}]

\* Lines 242-243: the url joins the set of its kind.
addLoaded(m, type, url) ==
    IF type = "js"
    THEN [m EXCEPT !.loadedJs = @ \cup {url}]
    ELSE [m EXCEPT !.loadedCss = @ \cup {url}]

\* A mark that validates the kind after it has recorded the url.
markScriptLoaded_lateCheck(m, type, url) ==
    IF type \notin {"js", "css"}
    THEN [addLoaded(m, type, url) EXCEPT !.exc = "BadKind"]
    ELSE resolveEntry(addLoaded(m, type, url), type, url)


markScriptLoaded(m, type, url) ==
    IF type \notin {"js", "css"}
    THEN [m EXCEPT !.exc = "BadKind"]
    ELSE resolveEntry(addLoaded(m, type, url), type, url)

\* Lines 273-286, one url of the map: the entries the promises contributed
\* so far are in w.  A loaded url contributes a resolved promise; a url
\* pendingScripts has (asked by the bare url) contributes that entry's
\* promise; otherwise a new entry is stored under `type:url`.
waitForUrl(m, w, type, url) ==
    IF isScriptLoadedThrows(type)
    THEN [m |-> [m EXCEPT !.exc = "BadKind"], w |-> w]
    ELSE IF isScriptLoaded(m, type, url)
    THEN [m |-> m, w |-> w]
    ELSE IF pendingHas(m, url)
    THEN [m |-> m, w |-> w \cup {pendingGet(m, url)}]
    ELSE LET e == Len(m.entries) + 1
         IN  [m |-> [m EXCEPT !.entries = Append(@, FALSE),
                              !.pendingScripts[scriptKey(type, url)] = e],
              w |-> w \cup {e}]

RECURSIVE waitForUrls(_, _, _, _)
waitForUrls(m, w, type, urls) ==
    IF urls = <<>> \/ m.exc # "none"
    THEN [m |-> m, w |-> w]
    ELSE LET r == waitForUrl(m, w, type, Head(urls))
         IN  waitForUrls(r.m, r.w, type, Tail(urls))

\* waitForScriptsToLoad: the promise it returns waits for the entries in
\* `entries`, or is rejected with what the map threw.
waitForScriptsToLoad(m, type, urls) ==
    LET r == waitForUrls(m, {}, type, urls)
    IN  [r.m EXCEPT !.waits = Append(@, [type |-> type, urls |-> urls,
                                         entries |-> r.w, exc |-> r.m.exc]),
                    !.exc = "none"]

\* A loadJs that does not ask whether the url is loaded already.
loadJs_always(m, data) ==
    IF data.tag # "script"
    THEN [m EXCEPT !.exc = "BadTag"]
    ELSE IF data.url = undefined
    THEN m
    ELSE LET m1 == markScriptLoaded(m, "js", data.url)
         IN  [m1 EXCEPT !.body = Append(@, data.url),
                        !.awaited = @ \cup {data.url}]

\* loadJs: the promise it returns is resolved, or waits for the load event
\* of the node it appended.
loadJs(m, data) ==
    IF data.tag # "script"
    THEN [m EXCEPT !.exc = "BadTag"]
    ELSE IF data.url = undefined \/ isScriptLoaded(m, "js", data.url)
    THEN m
    ELSE LET m1 == markScriptLoaded(m, "js", data.url)
         IN  [m1 EXCEPT !.body = Append(@, data.url),
                        !.awaited = @ \cup {data.url}]

\* A loadCss that appends and marks before it looks at the tag.
loadCss_lateTagCheck(m, data) ==
    LET m1 == IF data.url = undefined \/ isScriptLoaded(m, "css", data.url)
              THEN m
              ELSE markScriptLoaded([m EXCEPT !.head = Append(@, data.url)],
                                    "css", data.url)
    IN  IF data.tag # "link" THEN [m1 EXCEPT !.exc = "BadTag"] ELSE m1

\* Line 218: createLinkElement throws on a tag that is not `link`.
loadCss(m, data) ==
    IF data.tag # "link"
    THEN [m EXCEPT !.exc = "BadTag"]
    ELSE IF data.url = undefined \/ isScriptLoaded(m, "css", data.url)
    THEN m
    ELSE markScriptLoaded([m EXCEPT !.head = Append(@, data.url)], "css", data.url)

\* ------------------------------- envelope ingestion (lines 612-687)

RECURSIVE registerAllData(_, _)
registerAllData(m, componentJsVars) ==
    IF componentJsVars = <<>>
    THEN m
    ELSE LET v == Head(componentJsVars)
         IN  registerAllData(registerComponentData(m, v[1], v[2], v[3]),
                             Tail(componentJsVars))

RECURSIVE markAllLoaded(_, _, _)
markAllLoaded(m, type, urls) ==
    IF urls = <<>>
    THEN m
    ELSE markAllLoaded(markScriptLoaded(m, type, Head(urls)), type, Tail(urls))

RECURSIVE loadAllCss(_, _)
loadAllCss(m, tags) ==
    IF tags = <<>> \/ m.exc # "none"
    THEN m
    ELSE loadAllCss(loadCss(m, Head(tags)), Tail(tags))

RECURSIVE loadAllJs(_, _)
loadAllJs(m, tags) ==
    IF tags = <<>> \/ m.exc # "none"
    THEN m
    ELSE loadAllJs(loadJs(m, Head(tags)), Tail(tags))

RECURSIVE queueAllCalls(_, _, _)
queueAllCalls(m, componentJsCalls, waitForPromise) ==
    IF componentJsCalls = <<>>
    THEN m
    ELSE LET c == Head(componentJsCalls)
         IN  queueAllCalls(queueComponentCall(m, c[1], c[2], c[3], waitForPromise),
                           Tail(componentJsCalls), waitForPromise)

\* scriptsLoadPromise: it waits for the load events of the scripts this
\* envelope appended; waitForScriptsToLoad("js", jsUrls__markAsLoaded) adds
\* nothing to wait for, those urls having just been marked loaded.
scriptsLoadPromise(m) ==
    [state |-> IF m.awaited = {} THEN "fulfilled" ELSE "pending",
     value |-> undefined,
     awaits |-> m.awaited]

\* _loadComponentScripts on a decoded envelope.
_loadComponentScripts(m, inputs) ==
    LET m1 == registerAllData(m, inputs.componentJsVars)
        m2 == markAllLoaded(m1, "css", inputs.cssUrls__markAsLoaded)
        m3 == markAllLoaded(m2, "js", inputs.jsUrls__markAsLoaded)
        m4 == loadAllJs(loadAllCss(m3, inputs.cssTags__toFetch),
                        inputs.jsTags__toFetch)
        p == EnvPromise(m.envelopes + 1)
        m5 == [m4 EXCEPT !.envelopes = @ + 1, !.ingested = Append(@, inputs)]
    IN  IF m5.exc # "none"
        THEN [m5 EXCEPT !.thrown = Append(@, [error |-> m5.exc, call |-> 0])]
        ELSE _processPendingCalls(
                 queueAllCalls([m5 EXCEPT !.promises[p] = scriptsLoadPromise(m5)],
                               inputs.componentJsCalls, p))

\* ------------------------------------------- continuations of an execution

\* What a callback may do when it is invoked.
CallbackBehaviours == {"returns", "resolves", "throws", "rejects"}

\* callWithAsyncErrorHandling (errorHandling.ts): how the result that
\* callUnblockedComponent awaits settles, given what the callback did.  A
\* callback that throws or rejects fails the execution.
callWithAsyncErrorHandling(behaviour) ==
    IF behaviour \in {"returns", "resolves"} THEN "fulfilled" ELSE "rejected"

\* What the callback fn returns, or what the promise it returns resolves to.
ResultOf(fn) == "result of " \o fn

\* An execution that keeps the result of its first callback.
callbackSettled_firstResult(m, fr, behaviour) ==
    LET others == m.drains \ {fr}
        initFns == m.components[m.calls[fr.call].compClsId]
        mr == [m EXCEPT !.lastResult[fr.call] =
                  IF @ = undefined THEN ResultOf(initFns[fr.index]) ELSE @]
    IN  IF callWithAsyncErrorHandling(behaviour) = "rejected"
        THEN [m EXCEPT !.drains = others \cup
                 {Frame(fr.call, fr.index, fr.data, "return", "CallbackFailure")}]
        ELSE IF fr.index < Len(initFns)
        THEN LET m1 == invokeCallback(mr, fr.call, fr.index + 1, fr.data)
             IN  [m1 EXCEPT !.drains = others \cup
                     {Frame(fr.call, fr.index + 1, fr.data, "callback", "ok")}]
        ELSE [mr EXCEPT !.drains = others \cup
                 {Frame(fr.call, fr.index, fr.data, "return", "ok")}]

\* Lines 601-608: `lastResult = await result` resumes.  A fulfilled result
\* moves the for-of loop on: it reads initFns at its current length.  A
\* rejected result throws out of callUnblockedComponent.
callbackSettled(m, fr, behaviour) ==
    LET others == m.drains \ {fr}
        initFns == m.components[m.calls[fr.call].compClsId]
        \* Line 606: lastResult = await result.
        mr == [m EXCEPT !.lastResult[fr.call] = ResultOf(initFns[fr.index])]
    IN  IF callWithAsyncErrorHandling(behaviour) = "rejected"
        THEN [m EXCEPT !.drains = others \cup
                 {Frame(fr.call, fr.index, fr.data, "return", "CallbackFailure")}]
        ELSE IF fr.index < Len(initFns)
        THEN LET m1 == invokeCallback(mr, fr.call, fr.index + 1, fr.data)
             IN  [m1 EXCEPT !.drains = others \cup
                     {Frame(fr.call, fr.index + 1, fr.data, "callback", "ok")}]
        ELSE [mr EXCEPT !.drains = others \cup
                 {Frame(fr.call, fr.index, fr.data, "return", "ok")}]

\* Lines 431-446: the try/catch around the awaited execution.
settleCall(m, fr) ==
    [m EXCEPT !.callPromise[fr.call] =
                  IF @ # "pending" THEN @
                  ELSE IF fr.outcome = "ok" THEN "resolved" ELSE "rejected",
              !.callValue[fr.call] =
                  IF m.callPromise[fr.call] # "pending" THEN @
                  ELSE IF fr.outcome = "ok" THEN m.lastResult[fr.call]
                  ELSE fr.outcome]

\* A drain with no try/catch around the execution: the error of a callback
\* ends the drain, the guard staying set.
drainResumed_uncaught(m, fr) ==
    IF fr.outcome = "ok"
    THEN drainLoop(settleCall([m EXCEPT !.drains = @ \ {fr}], fr))
    ELSE settleCall([m EXCEPT !.drains = @ \ {fr}], fr)

\* A drain that ends after the one execution it awaited, leaving the rest
\* of the queue to the next drain requested.
drainResumed_stop(m, fr) ==
    [settleCall([m EXCEPT !.drains = @ \ {fr}], fr)
        EXCEPT !.isProcessingPendingCalls = FALSE]

\* Lines 426-447 and back to line 392: the drain's await resumes, the call's
\* promise is settled, and the loop goes on.
drainResumed(m, fr) ==
    drainLoop(settleCall([m EXCEPT !.drains = @ \ {fr}], fr))

\* ----------------------------------------------------------------- actions

Init ==
    /\ components = [c \in Classes |-> <<>>]
    /\ componentInputs = [k \in DataKeys |-> undefined]
    /\ pendingComponentCalls = <<>>
    /\ isProcessingPendingCalls = FALSE
    /\ warningIntervalId = null
    /\ promiseCompletionStatus = [k \in CallKeys |-> ABSENT]
    /\ loadedJs = {}
    /\ loadedCss = {}
    /\ calls = <<>>
    /\ callPromise = <<>>
    /\ promises = [p \in AllPromises |->
                      [state |-> "pending", value |-> undefined, awaits |-> {}]]
    /\ reactions = {}
    /\ drains = {}
    /\ elements = InitialElements
    /\ body = <<>>
    /\ head = <<>>
    /\ onloadFired = {}
    /\ envelopes = 0
    /\ started = <<>>
    /\ invoked = <<>>
    /\ thrown = <<>>
    /\ pendingScripts = [k \in PendingKeys |-> 0]
    /\ entries = <<>>
    /\ waits = <<>>
    /\ ingested = <<>>
    /\ dataCalls = <<>>
    /\ lastResult = [id \in CallSlots |-> undefined]
    /\ callValue = [id \in CallSlots |-> undefined]
    /\ activeIntervals = 0
    /\ callsAtStart = [id \in CallSlots |-> 0]
    /\ fnsAtStart = [id \in CallSlots |-> 0]
    /\ diagnostic = [n |-> 0, count |-> 0, oldest |-> 0]
    /\ onerrorFired = {}
    /\ returned = [n |-> 0, op |-> "none", arg |-> <<>>, exc |-> "none", promise |-> "none"]

\* Every registration passes a function of its own: the n-th callback of a
\* class is named fn.
NewFn(compClsId) == "f" \o ToString(Len(components[compClsId]) + 1)

RegisterComponent(compClsId, compFn) ==
    /\ Len(components[compClsId]) < MaxCallbacks
    /\ Commit(registerComponent(Mgr, compClsId, compFn))
    /\ UNCHANGED <<elements, onloadFired>>

RegisterComponentData(compClsId, jsVarsHash, dataFactory) ==
    /\ Commit(registerComponentData(Mgr, compClsId, jsVarsHash, dataFactory))
    /\ UNCHANGED <<elements, onloadFired>>

\* The wait-promises a caller may pass: none, one already passed, or the
\* first one not passed yet (the promises are interchangeable).
UsedPromises == {calls[id].waitForPromise : id \in 1..Len(calls)} \cap Promises
WaitInputs ==
    {undefined} \cup UsedPromises \cup
        (IF "p1" \notin UsedPromises THEN {"p1"}
         ELSE IF "p2" \notin UsedPromises THEN {"p2"} ELSE {})

CallComponent(compClsId, compId, jsVarsHash, waitForPromise) ==
    /\ Len(calls) < MaxCalls
    /\ Commit(queueComponentCall(Mgr, compClsId, compId, jsVarsHash, waitForPromise))
    /\ UNCHANGED <<elements, onloadFired>>

\* A wait-promise handed to callComponent is settled by its owner.
SettleWaitPromise(p, state, value) ==
    /\ promises[p].state = "pending"
    /\ \E id \in 1..Len(calls) : calls[id].waitForPromise = p
    /\ promises' = [promises EXCEPT ![p].state = state, ![p].value = value]
    /\ UNCHANGED <<components, componentInputs, pendingComponentCalls,
                   isProcessingPendingCalls, warningIntervalId,
                   promiseCompletionStatus, loadedJs, loadedCss, calls, callPromise,
                   reactions, drains, elements, body, head, onloadFired, envelopes,
                   started, invoked, thrown, pendingScripts, entries, waits,
                   returned, ingested, dataCalls, lastResult, callValue,
                   activeIntervals, callsAtStart,
                   fnsAtStart,
                   diagnostic,
                   onerrorFired>>

\* The reactions of one promise run in the order they were attached.
WaitReaction(id) ==
    /\ id \in reactions
    /\ promises[calls[id].waitForPromise].state # "pending"
    /\ \A other \in reactions :
           calls[other].waitForPromise = calls[id].waitForPromise => other >= id
    /\ Commit(waitReaction(Mgr, id))
    /\ UNCHANGED <<elements, onloadFired>>

CallbackSettled(fr, behaviour) ==
    /\ fr \in drains
    /\ fr.at = "callback"
    /\ Commit(callbackSettled(Mgr, fr, behaviour))
    /\ UNCHANGED <<elements, onloadFired>>

DrainResumed(fr) ==
    /\ fr \in drains
    /\ fr.at = "return"
    /\ Commit(drainResumed(Mgr, fr))
    /\ UNCHANGED <<elements, onloadFired>>

LoadComponentScripts(inputs) ==
    /\ envelopes < MaxEnvelopes
    /\ Len(calls) + Len(inputs.componentJsCalls) <= MaxCalls
    /\ Commit(_loadComponentScripts(Mgr, inputs))
    /\ UNCHANGED <<elements, onloadFired>>

\* The load event of an appended script (line 192): the promise loadJs
\* returned resolves, and with it every envelope promise that waited for
\* nothing else.
ScriptLoaded(url) ==
    /\ \E n \in 1..Len(body) : body[n] = url
    /\ url \notin onloadFired \cup onerrorFired
    /\ onloadFired' = onloadFired \cup {url}
    /\ promises' =
           [p \in AllPromises |->
               IF url \in promises[p].awaits
               THEN [promises[p] EXCEPT
                        !.awaits = @ \ {url},
                        !.state = IF promises[p].awaits = {url}
                                  THEN "fulfilled" ELSE @]
               ELSE promises[p]]
    /\ UNCHANGED <<components, componentInputs, pendingComponentCalls,
                   isProcessingPendingCalls, warningIntervalId,
                   promiseCompletionStatus, loadedJs, loadedCss, calls, callPromise,
                   reactions, drains, elements, body, head, envelopes,
                   started, invoked, thrown, pendingScripts, entries, waits,
                   returned, ingested, dataCalls, lastResult, callValue,
                   activeIntervals, callsAtStart,
                   fnsAtStart,
                   diagnostic,
                   onerrorFired>>

\* A loadJs whose node has an onerror handler that rejects its promise.
scriptError_rejects(ps, url) ==
    [p \in AllPromises |->
        IF url \in ps[p].awaits
        THEN [ps[p] EXCEPT !.state = "rejected", !.value = "Error"]
        ELSE ps[p]]

\* Lines 191-194: the node gets an onload handler and no onerror handler,
\* so the error event settles no promise.
scriptError(ps, url) == ps

\* The error event of an appended script: the script failed to load.  A
\* node fires load or error, once.
ScriptFailed(url) ==
    /\ \E n \in 1..Len(body) : body[n] = url
    /\ url \notin onloadFired \cup onerrorFired
    /\ Commit([Mgr EXCEPT !.onerrorFired = @ \cup {url},
                          !.promises = scriptError(promises, url)])
    /\ UNCHANGED <<elements, onloadFired>>

\* ---------------------------------------------- the asset API (702-711)

\* What a call of the asset API gave back: the exception it threw, or the
\* state of the promise it returned ("none": it returned no promise).  n
\* tells one call from the next.
Returned(m, op, arg, promise) ==
    [m EXCEPT !.returned = [n |-> 1 - m.returned.n, op |-> op, arg |-> arg,
                            exc |-> m.exc,
                            promise |-> IF m.exc # "none" THEN "none" ELSE promise],
              !.exc = "none"]

LoadJs(data) ==
    /\ LET m == loadJs(Mgr, data)
       IN  Commit(Returned(m, "loadJs", data,
                           IF m.awaited = {} THEN "resolved" ELSE "pending"))
    /\ UNCHANGED <<elements, onloadFired>>

\* loadCss returns nothing (line 223) or an object with a resolved promise.
LoadCss(data) ==
    /\ LET m == loadCss(Mgr, data)
       IN  Commit(Returned(m, "loadCss", data,
                           IF m.head = head THEN "none" ELSE "resolved"))
    /\ UNCHANGED <<elements, onloadFired>>

MarkScriptLoaded(type, url) ==
    /\ Commit(Returned(markScriptLoaded(Mgr, type, url), "markScriptLoaded",
                       <<type, url>>, "none"))
    /\ UNCHANGED <<elements, onloadFired>>

\* The promise of an async function: a throw inside it rejects the promise.
WaitForScriptsToLoad(type, urls) ==
    /\ Len(waits) < MaxWaits
    /\ LET m == waitForScriptsToLoad(Mgr, type, urls)
       IN  Commit(Returned(m, "waitForScriptsToLoad", <<type, urls>>,
                           IF m.waits[Len(m.waits)].exc # "none" THEN "rejected"
                           ELSE IF \A e \in m.waits[Len(m.waits)].entries : m.entries[e]
                           THEN "resolved" ELSE "pending"))
    /\ UNCHANGED <<elements, onloadFired>>

\* The asset API alone, with the load events of the scripts it appended.
NextAssets ==
    \/ \E data \in TagInputs : LoadJs(data)
    \/ \E data \in TagInputs : LoadCss(data)
    \/ \E t \in KindInputs, u \in AssetUrls : MarkScriptLoaded(t, u)
    \/ \E t \in KindInputs, urls \in UrlListInputs : WaitForScriptsToLoad(t, urls)
    \/ \E url \in AssetUrls : ScriptLoaded(url)

SpecAssets == Init /\ [][NextAssets]_vars

\* The waiters alone: waitForScriptsToLoad and markScriptLoaded of both
\* kinds, over urls that can meet in the waiter map.
NextWaiters ==
    \/ \E t \in Kinds, u \in WaiterUrls : MarkScriptLoaded(t, u)
    \/ \E t \in Kinds, u \in WaiterUrls : WaitForScriptsToLoad(t, << u >>)

SpecWaiters == Init /\ [][NextWaiters]_vars

\* Envelope ingestion with script loading: envelopes, direct loadJs calls,
\* load events, the registrations and the continuations.
NextEnvelopes ==
    \/ \E inputs \in EnvelopeInputs \cup BadTagEnvelopeInputs :
           LoadComponentScripts(inputs)
    \/ \E data \in TagInputs : LoadJs(data)
    \/ \E url \in AssetUrls : ScriptLoaded(url)
    \/ \E url \in AssetUrls : ScriptFailed(url)
    \/ \E c \in Classes : RegisterComponent(c, NewFn(c))
    \/ \E k \in DataInputs, d \in Datas : RegisterComponentData(k[1], k[2], d)
    \/ \E id \in reactions : WaitReaction(id)
    \/ \E fr \in drains, b \in CallbackBehaviours : CallbackSettled(fr, b)
    \/ \E fr \in drains : DrainResumed(fr)

SpecEnvelopes == Init /\ [][NextEnvelopes]_vars

\* The steps other than the rejection of a wait-promise.
NextFulfilling ==
    \/ \E c \in Classes : RegisterComponent(c, NewFn(c))
    \/ \E k \in DataInputs, d \in Datas : RegisterComponentData(k[1], k[2], d)
    \/ \E k \in CallInputs, w \in WaitInputs : CallComponent(k[1], k[2], k[3], w)
    \/ \E p \in Promises : SettleWaitPromise(p, "fulfilled", undefined)
    \/ \E id \in reactions : WaitReaction(id)
    \/ \E fr \in drains, b \in CallbackBehaviours : CallbackSettled(fr, b)
    \/ \E fr \in drains : DrainResumed(fr)
    \/ \E inputs \in EnvelopeInputs : LoadComponentScripts(inputs)
    \/ \E url \in Urls : ScriptLoaded(url)

Next ==
    \/ NextFulfilling
    \/ \E p \in Promises, v \in RejectValues : SettleWaitPromise(p, "rejected", v)

Spec == Init /\ [][Next]_vars

\* The behaviours in which no wait-promise is ever rejected.
SpecFulfilling == Init /\ [][NextFulfilling]_vars

\* callComponent by a page that calls one tuple again and again.
CallSameTuple(compClsId, compId, jsVarsHash, waitForPromise) ==
    /\ Len(calls) < MaxSameCalls
    /\ Commit(queueComponentCall(Mgr, compClsId, compId, jsVarsHash, waitForPromise))
    /\ UNCHANGED <<elements, onloadFired>>

\* One class and one tuple, called up to MaxSameCalls times with or without
\* a wait-promise; no wait-promise is rejected.
NextSameTuple ==
    \/ RegisterComponent("x", NewFn("x"))
    \/ \E w \in WaitInputs : CallSameTuple("x", "1", null, w)
    \/ \E p \in Promises : SettleWaitPromise(p, "fulfilled", undefined)
    \/ \E id \in reactions : WaitReaction(id)
    \/ \E fr \in drains, b \in CallbackBehaviours : CallbackSettled(fr, b)
    \/ \E fr \in drains : DrainResumed(fr)

SpecSameTuple == Init /\ [][NextSameTuple]_vars

\* The interval fires while it is live.
TimerTick ==
    /\ activeIntervals > 0
    /\ Commit(warningTick(Mgr))
    /\ UNCHANGED <<elements, onloadFired>>

\* An element of a component instance is inserted into the document.
ElementAppears(compId) ==
    /\ compId \notin elements
    /\ elements' = elements \cup {compId}
    /\ Commit(Mgr)
    /\ UNCHANGED onloadFired

\* A page that registers and calls components directly while elements are
\* inserted into the document.
NextElements ==
    \/ \E c \in Classes : RegisterComponent(c, NewFn(c))
    \/ \E k \in DataInputs, d \in Datas : RegisterComponentData(k[1], k[2], d)
    \/ \E k \in ElementCallInputs : CallComponent(k[1], k[2], k[3], undefined)
    \/ \E fr \in drains, b \in CallbackBehaviours : CallbackSettled(fr, b)
    \/ \E fr \in drains : DrainResumed(fr)
    \/ \E i \in Insts : ElementAppears(i)

SpecElements == Init /\ [][NextElements]_vars

\* A page that registers and calls components directly, with or without a
\* wait-promise that fulfils, while the stall timer ticks.
NextStall ==
    \/ \E c \in Classes : RegisterComponent(c, NewFn(c))
    \/ \E k \in DataInputs, d \in Datas : RegisterComponentData(k[1], k[2], d)
    \/ \E k \in CallInputs, w \in WaitInputs : CallComponent(k[1], k[2], k[3], w)
    \/ \E p \in Promises : SettleWaitPromise(p, "fulfilled", undefined)
    \/ \E id \in reactions : WaitReaction(id)
    \/ \E fr \in drains, b \in CallbackBehaviours : CallbackSettled(fr, b)
    \/ \E fr \in drains : DrainResumed(fr)
    \/ TimerTick

SpecStall == Init /\ [][NextStall]_vars

\* ------------------------------------------------------------- properties

Range(seq) == {seq[n] : n \in 1..Len(seq)}
CallIds == 1..Len(calls)
Queued(id) == id \in Range(pendingComponentCalls)
Started(id) == id \in Range(started)
\* The positions in initFns of the callbacks invoked for a call, in order.
InvocationsOf(id) ==
    SelectSeq(invoked, LAMBDA r : r.call = id)
WaitState(id) ==
    IF calls[id].waitForPromise = undefined
    THEN "none"
    ELSE promises[calls[id].waitForPromise].state
\* No continuation of the manager is outstanding: no drain is suspended and
\* no reaction to a wait-promise is still to run.
Idle == drains = {} /\ reactions = {}

\* C1 (FIFO execution).  Calls are numbered in the order they were queued.
\* No call has started while a call queued before it is still in the queue,
\* and calls start in the order they were queued, whoever queued them and
\* whether or not they wait for a promise.
C1_FifoExecution ==
    /\ \A b \in Range(started), a \in Range(pendingComponentCalls) : b < a
    /\ \A i, j \in 1..Len(started) : i < j => started[i] < started[j]

\* A call queued by an envelope, gated by its scripts, started before a
\* later call that waits for nothing.
C1_Witness ==
    /\ Len(started) = 2
    /\ calls[started[1]].waitForPromise \in EnvPromises
    /\ calls[started[2]].waitForPromise = undefined

\* C2 (wait-promise).  A call queued with a wait-promise has not started
\* unless its own wait-promise is fulfilled.
C2_OwnWaitPromiseFulfilled ==
    \A id \in Range(started) : WaitState(id) \in {"none", "fulfilled"}

\* C3 (readiness at start).  Every call that has started has a callback
\* registered for its class and, if it has a data hash, a data factory (the
\* registries only grow, so this is the state it started in); and no
\* execution ended in the NoCallback or NoDataFactory error.
C3_StartsOnlyWhenRegistered ==
    /\ \A id \in Range(started) :
          /\ ~noCallbacks(Mgr, calls[id].compClsId)
          /\ ~noDataFactory(Mgr, calls[id].compClsId, calls[id].jsVarsHash)
    /\ \A fr \in drains : fr.outcome \notin {"NoCallback", "NoDataFactory"}

\* A call with a data hash is executing its first callback.
C3_Witness ==
    \E fr \in drains :
        /\ calls[fr.call].jsVarsHash # null
        /\ fr.at = "callback"
        /\ fr.data \in Datas

\* C4 (at-most-once).  A call that has started is no longer in the queue,
\* no call starts twice, and no callback of a class is invoked twice for
\* the same call.
C4_AtMostOnce ==
    /\ \A id \in Range(started) : ~Queued(id)
    /\ \A i, j \in 1..Len(started) : i # j => started[i] # started[j]
    /\ \A i, j \in 1..Len(invoked) :
          i # j => (invoked[i].call # invoked[j].call \/ invoked[i].fn # invoked[j].fn)

\* One call ran both callbacks of its class and resolved; another started.
C4_Witness ==
    /\ Len(started) = 2
    /\ \E id \in CallIds :
          /\ Len(InvocationsOf(id)) = 2
          /\ callPromise[id] = "resolved"

\* C5 (drain re-entrancy).  At most one invocation of _processPendingCalls
\* is past its guard, so at most one call is executing, and the guard is
\* held while it is.
C5_OneDrain ==
    /\ Cardinality(drains) <= 1
    /\ drains # {} => isProcessingPendingCalls

\* A drain is suspended on a callback while the next call is already ready:
\* the request that made it ready was collapsed.
C5_Witness ==
    /\ \E fr \in drains : fr.at = "callback"
    /\ pendingComponentCalls # <<>>
    /\ ~_isCallBlocked(Mgr, calls[Head(pendingComponentCalls)])

\* C6 (simple activation).  A call with no data hash and no wait-promise,
\* whose class has a callback and whose instance has an element, gets
\* executed without any further call into the manager: the manager is never
\* idle with such a call at the head of its queue.
C6_SimpleActivationExecutes ==
    (Idle /\ pendingComponentCalls # <<>>) =>
        LET call == calls[Head(pendingComponentCalls)]
        IN  ~ /\ call.jsVarsHash = null
              /\ call.waitForPromise = undefined
              /\ ~noCallbacks(Mgr, call.compClsId)
              /\ call.compId \in elements

\* C7 (error on a missing registration).  callComponent never throws (every
\* call made is in `calls`), so the error has to be a rejection: a call
\* whose class has no callback, or whose data factory is missing (the
\* registries only grow: it was so when the call was made), has its promise
\* rejected once the manager is idle.
C7_UnregisteredCallSignalsError ==
    \A id \in CallIds :
        (/\ Idle
         /\ \/ noCallbacks(Mgr, calls[id].compClsId)
            \/ noDataFactory(Mgr, calls[id].compClsId, calls[id].jsVarsHash))
        => callPromise[id] = "rejected"

\* C8 (unblock by late registration).  Take the call at the head of the
\* queue, with a data hash, no wait-promise and no data factory yet.  A step
\* that leaves the factory missing (registerComponent alone, say) leaves the
\* call at the head, not started.  A step that registers the factory, with a
\* callback registered and no drain in progress, starts the call in that
\* very step; if its element exists, the first callback is invoked with the
\* object of the factory just registered.
C8_Step ==
    pendingComponentCalls # <<>> =>
        LET id == Head(pendingComponentCalls)
            call == calls[id]
            key == dataKey(call.compClsId, call.jsVarsHash)
        IN  (/\ call.jsVarsHash # null
             /\ call.waitForPromise = undefined
             /\ componentInputs[key] = undefined)
            => /\ componentInputs'[key] = undefined
                  => /\ pendingComponentCalls' # <<>>
                     /\ Head(pendingComponentCalls') = id
                     /\ started' = started
               /\ (/\ componentInputs'[key] # undefined
                   /\ ~noCallbacks(Mgr, call.compClsId)
                   /\ drains = {})
                  => /\ started' = Append(started, id)
                     /\ id \notin Range(pendingComponentCalls')
                     /\ call.compId \in elements
                        => invoked' = Append(invoked,
                               [call |-> id,
                                fn |-> components[call.compClsId][1],
                                index |-> 1,
                                data |-> componentInputs'[key]])

C8_LateRegistrationUnblocks == [][C8_Step]_vars

\* The only call made, with a data hash and no wait-promise, was invoked
\* with the data of its factory, with no envelope involved.
C8_Witness ==
    /\ envelopes = 0
    /\ Len(calls) = 1
    /\ calls[1].jsVarsHash # null
    /\ calls[1].waitForPromise = undefined
    /\ Len(invoked) = 1
    /\ invoked[1].call = 1
    /\ invoked[1].data = componentInputs[dataKey(calls[1].compClsId, calls[1].jsVarsHash)]

\* C9 (upstream failure flushes the queue).  Once the rejection of a call's
\* wait-promise has been recorded, a drain that meets the call at the head
\* of the queue flushes the queue and throws: the call is never executed,
\* and no drain leaves it at the head.
C9_UpstreamFailureFlushes ==
    \A id \in CallIds :
        (WaitState(id) = "rejected" /\ id \notin reactions)
        => /\ ~Started(id)
           /\ (drains = {} /\ pendingComponentCalls # <<>>)
              => Head(pendingComponentCalls) # id

\* C10 (callback failure isolation).
\*  (a) The step in which a callback of call A fails changes neither the
\*      queue, nor the status map, nor any call's promise, and invokes nothing.
\*  (b) The step in which the drain resumes after it rejects A's promise and
\*      no other, invokes no further callback of A, and goes on with the
\*      loop: a ready head is taken off the queue and started, only its
\*      status entry being removed; a blocked head stays, the queue and the
\*      status map being unchanged.
\*  (c) No callback of a call whose promise is rejected is invoked any more.
C10_Step ==
    /\ \A fr \in drains :
          (/\ fr.at = "callback"
           /\ Frame(fr.call, fr.index, fr.data, "return", "CallbackFailure") \in drains')
          => /\ pendingComponentCalls' = pendingComponentCalls
             /\ promiseCompletionStatus' = promiseCompletionStatus
             /\ callPromise' = callPromise
             /\ invoked' = invoked
             /\ started' = started
    /\ \A fr \in drains :
          (fr.at = "return" /\ fr.outcome = "CallbackFailure" /\ fr \notin drains')
          => /\ callPromise'[fr.call] = "rejected"
             /\ \A other \in CallIds \ {fr.call} : callPromise'[other] = callPromise[other]
             /\ SelectSeq(invoked', LAMBDA r : r.call = fr.call) = InvocationsOf(fr.call)
             /\ IF pendingComponentCalls = <<>>
                THEN /\ pendingComponentCalls' = <<>>
                     /\ promiseCompletionStatus' = promiseCompletionStatus
                ELSE LET b == Head(pendingComponentCalls)
                     IN  IF headFailed(Mgr, calls[b])
                         THEN TRUE
                         ELSE IF _isCallBlocked(Mgr, calls[b])
                         THEN /\ pendingComponentCalls' = pendingComponentCalls
                              /\ promiseCompletionStatus' = promiseCompletionStatus
                              /\ started' = started
                         ELSE /\ pendingComponentCalls' = Tail(pendingComponentCalls)
                              /\ started' = Append(started, b)
                              /\ \A k \in CallKeys \ {callKeyOf(calls[b])} :
                                    promiseCompletionStatus'[k] = promiseCompletionStatus[k]
    /\ \A id \in CallIds :
          callPromise[id] = "rejected"
          => SelectSeq(invoked', LAMBDA r : r.call = id) = InvocationsOf(id)

C10_CallbackFailureIsolated == [][C10_Step]_vars

\* The first of the two callbacks of a call failed: the second was not
\* invoked, the call's promise is rejected, and the next call is executing.
C10_Witness ==
    \E id \in CallIds :
        /\ callPromise[id] = "rejected"
        /\ Len(InvocationsOf(id)) = 1
        /\ Len(components[calls[id].compClsId]) = 2
        /\ \E fr \in drains : fr.call > id /\ fr.at = "callback"

\* The step is a call of the asset API (n tells one call from the next).
AssetCall(op) == returned'.n # returned.n /\ returned'.op = op

\* C11 (shared waiters).  A promise waitForScriptsToLoad returned, all of
\* whose urls have since been marked loaded for its kind, is resolved: every
\* entry it waits for is resolved.
C11_SharedWaitersResolve ==
    \A i \in 1..Len(waits) :
        (/\ waits[i].exc = "none"
         /\ \A u \in Range(waits[i].urls) : isScriptLoaded(Mgr, waits[i].type, u))
        => \A e \in waits[i].entries : entries[e]

\* C12 (idempotent asset load).  A node is appended to <body> or <head>
\* only for a url no node of that place carries yet; a loadJs or loadCss
\* call for a url already loaded appends nothing, and such a loadJs returns
\* a resolved promise.
C12_Step ==
    /\ body' # body
       => \E u \in AssetUrls : body' = Append(body, u) /\ u \notin Range(body)
    /\ head' # head
       => \E u \in AssetUrls : head' = Append(head, u) /\ u \notin Range(head)
    /\ (/\ AssetCall("loadJs")
        /\ returned'.arg.url # undefined
        /\ returned'.exc = "none"
        /\ isScriptLoaded(Mgr, "js", returned'.arg.url))
       => body' = body /\ head' = head /\ returned'.promise = "resolved"
    /\ (/\ AssetCall("loadCss")
        /\ returned'.arg.url # undefined
        /\ returned'.exc = "none"
        /\ isScriptLoaded(Mgr, "css", returned'.arg.url))
       => body' = body /\ head' = head

C12_IdempotentAssetLoad == [][C12_Step]_vars

\* A second loadJs of a url whose node is in <body> returned a resolved
\* promise, and the node is still the only one.
C12_Witness ==
    /\ returned.op = "loadJs"
    /\ returned.arg.url = "/a.js"
    /\ returned.promise = "resolved"
    /\ body = << "/a.js" >>

\* C13 (monotonic loadedness).  No step removes a url from loadedJs or
\* loadedCss, and markScriptLoaded for one kind leaves the set of the other
\* kind as it was.
C13_Step ==
    /\ loadedJs \subseteq loadedJs'
    /\ loadedCss \subseteq loadedCss'
    /\ AssetCall("markScriptLoaded")
       => /\ returned'.arg[1] = "js" => loadedCss' = loadedCss
          /\ returned'.arg[1] = "css" => loadedJs' = loadedJs

C13_MonotonicLoadedness == [][C13_Step]_vars

\* A url was marked for css only, after another had been loaded for js.
C13_Witness ==
    /\ returned.op = "markScriptLoaded"
    /\ returned.arg = <<"css", "/a.js">>
    /\ "/a.js" \in loadedCss
    /\ "/a.js" \notin loadedJs
    /\ loadedJs # {}

\* C15 (inline-only script).  loadJs of a script descriptor with no src
\* appends the node to <body>, adds nothing to the loaded sets, and returns
\* a resolved promise.
C15_Step ==
    (/\ AssetCall("loadJs")
     /\ returned'.arg.tag = "script"
     /\ returned'.arg.url = undefined)
    => /\ Len(body') = Len(body) + 1
       /\ loadedJs' = loadedJs
       /\ loadedCss' = loadedCss
       /\ returned'.promise = "resolved"

C15_InlineScriptAppended == [][C15_Step]_vars

\* C20 (BadKind leaves the state unchanged).  markScriptLoaded with a kind
\* that is neither js nor css throws BadKind, and isScriptLoaded with such
\* a kind throws inside waitForScriptsToLoad, whose promise is rejected; in
\* both cases the loaded sets, the waiter map and its entries, the queue and
\* the ledger are as before the call.
C20_Step ==
    /\ (AssetCall("markScriptLoaded") /\ returned'.arg[1] \notin Kinds)
       => returned'.exc = "BadKind"
    /\ (AssetCall("waitForScriptsToLoad") /\ returned'.arg[1] \notin Kinds)
       => returned'.promise = "rejected"
    /\ (/\ returned'.n # returned.n
        /\ returned'.exc = "BadKind" \/ returned'.promise = "rejected")
       => /\ loadedJs' = loadedJs
          /\ loadedCss' = loadedCss
          /\ pendingScripts' = pendingScripts
          /\ entries' = entries
          /\ pendingComponentCalls' = pendingComponentCalls
          /\ promiseCompletionStatus' = promiseCompletionStatus

C20_BadKindNoEffect == [][C20_Step]_vars

\* markScriptLoaded threw BadKind while a waiter entry was outstanding.
C20_Witness ==
    /\ returned.op = "markScriptLoaded"
    /\ returned.exc = "BadKind"
    /\ \E e \in 1..Len(entries) : ~entries[e]

\* The envelope whose combined promise p is.
EnvelopeOf(p) == CHOOSE n \in 1..MaxEnvelopes : EnvPromise(n) = p

\* C14 (envelope script gating).  A call queued by an envelope has started
\* only if the load event of every script of that envelope's
\* jsTags__toFetch has fired.
C14_EnvelopeScriptGating ==
    \A id \in Range(started) :
        calls[id].waitForPromise \in EnvPromises
        => \A tag \in Range(ingested[EnvelopeOf(calls[id].waitForPromise)].jsTags__toFetch) :
               tag.url \in onloadFired

\* C18 (envelope idempotence).  A step that ingests an envelope equal to
\* one ingested before queues and starts no call, appends no node, and
\* leaves the registries and the loaded sets as they were.
C18_Step ==
    (/\ envelopes' = envelopes + 1
     /\ ingested'[envelopes'] \in Range(ingested))
    => /\ calls' = calls
       /\ pendingComponentCalls' = pendingComponentCalls
       /\ started' = started
       /\ body' = body
       /\ head' = head
       /\ components' = components
       /\ componentInputs' = componentInputs
       /\ loadedJs' = loadedJs
       /\ loadedCss' = loadedCss

C18_EnvelopeIdempotence == [][C18_Step]_vars

\* C16 (fresh data at execution time).  A factory is invoked only in a step
\* that starts a call with a data hash, for that call, and it is the factory
\* bound to the call's (class, hash) at the end of that step; so neither a
\* registration nor an enqueue invokes one by itself.  No call has two
\* invocations, every callback of a call with a data hash gets what the
\* invocation made for that call returned, and a call with no data hash
\* gets `{}`.
C16_Inv ==
    /\ \A i, j \in 1..Len(dataCalls) :
           dataCalls[i].call = dataCalls[j].call => i = j
    /\ \A r \in Range(invoked) :
           IF calls[r.call].jsVarsHash = null
           THEN r.data = "{}"
           ELSE \E d \in Range(dataCalls) : d.call = r.call /\ d.factory = r.data

C16_Step ==
    dataCalls' # dataCalls
    => \E id \in 1..Len(calls') :
          /\ calls'[id].jsVarsHash # null
          /\ started' = Append(started, id)
          /\ dataCalls' = Append(dataCalls,
                 [call |-> id,
                  factory |-> componentInputs'[dataKey(calls'[id].compClsId,
                                                       calls'[id].jsVarsHash)]])

C16_FreshDataAtExecution == [](C16_Inv) /\ [][C16_Step]_vars

\* Two calls of one (class, hash) were executed, each with the factory bound
\* when it started: the binding was overwritten in between.
C16_Witness ==
    /\ Len(dataCalls) = 2
    /\ calls[dataCalls[1].call].jsVarsHash = calls[dataCalls[2].call].jsVarsHash
    /\ calls[dataCalls[1].call].compClsId = calls[dataCalls[2].call].compClsId
    /\ dataCalls[1].factory # dataCalls[2].factory
    /\ \E r \in Range(invoked) : r.call = dataCalls[2].call /\ r.index = 2

\* C17 (callback chain order and value).  The callbacks invoked for a call
\* are the first, second, ... callbacks registered for its class, in that
\* order; a callback after the first is invoked only in the step in which
\* the await of the one before it completes; and a resolved call's promise
\* carries the result of the last callback invoked for it.
C17_Inv ==
    \A id \in CallIds :
        LET inv == InvocationsOf(id)
        IN  /\ \A k \in 1..Len(inv) :
                  /\ inv[k].index = k
                  /\ k <= Len(components[calls[id].compClsId])
                  /\ inv[k].fn = components[calls[id].compClsId][k]
            /\ callPromise[id] = "resolved"
               => /\ Len(inv) > 0
                  /\ callValue[id] = ResultOf(inv[Len(inv)].fn)

C17_Step ==
    invoked' # invoked
    => \E r \in Range(invoked') :
          /\ invoked' = Append(invoked, r)
          /\ r.index > 1
             => \E fr \in drains \ drains' :
                   fr.call = r.call /\ fr.index = r.index - 1 /\ fr.at = "callback"

C17_ChainOrderAndValue == [](C17_Inv) /\ [][C17_Step]_vars

\* A call with two callbacks resolved with the result of the second.
C17_Witness ==
    \E id \in CallIds :
        /\ callPromise[id] = "resolved"
        /\ Len(InvocationsOf(id)) = 2
        /\ callValue[id] = ResultOf("f2")

\* C19 (exactly-once liveness).  With no drain in progress, take the call at
\* the head of the queue: if its class has a callback, its data factory (if
\* it needs one) is registered, and its wait-promise (if it has one) is
\* fulfilled and no call made so far has a then/catch handler left to run
\* that writes under its key, then the call is not blocked, so that the
\* next drain requested executes it.
C19_ReadyHeadNotBlocked ==
    (pendingComponentCalls # <<>> /\ drains = {})
    => LET id == Head(pendingComponentCalls)
           call == calls[id]
       IN  (/\ ~noCallbacks(Mgr, call.compClsId)
            /\ ~noDataFactory(Mgr, call.compClsId, call.jsVarsHash)
            /\ WaitState(id) \in {"none", "fulfilled"}
            /\ \A other \in reactions : callKeyOf(calls[other]) # callKeyOf(call))
           => ~_isCallBlocked(Mgr, call)

\* C21 (BadTag leaves the state unchanged).  loadJs of a descriptor whose
\* tag is not `script`, and loadCss of one whose tag is not `link`, throw
\* BadTag, with or without a url in the descriptor; the step appends no node,
\* marks no url loaded and resolves no waiter entry.
C21_Step ==
    /\ (AssetCall("loadJs") /\ returned'.arg.tag # "script")
       => returned'.exc = "BadTag"
    /\ (AssetCall("loadCss") /\ returned'.arg.tag # "link")
       => returned'.exc = "BadTag"
    /\ (returned'.n # returned.n /\ returned'.exc = "BadTag")
       => /\ body' = body
          /\ head' = head
          /\ loadedJs' = loadedJs
          /\ loadedCss' = loadedCss
          /\ pendingScripts' = pendingScripts
          /\ entries' = entries

OwnKey(id) ==
    \A other \in CallIds \ {id} : callKeyOf(calls[other]) # callKeyOf(calls[id])

\* C22 (rejected wait-promise, any reason).  Take a call whose key no other
\* call shares, whose wait-promise is rejected, with whatever value, and
\* whose catch handler has run.  The call has not been executed, and no
\* drain has left it at the head of the queue: the first drain that met it
\* there flushed the queue.
C22_AnyRejectionFlushes ==
    \A id \in CallIds :
        (WaitState(id) = "rejected" /\ id \notin reactions /\ OwnKey(id))
        => /\ ~Started(id)
           /\ (drains = {} /\ pendingComponentCalls # <<>>)
              => Head(pendingComponentCalls) # id

\* C23 (stall reporter disarmed on an empty queue).  When the queue is empty
\* and no drain is in progress (the guard is released and no drain is
\* suspended), there is no stall timer: warningIntervalId is null and no
\* interval is live.  The state after a flush is such a state.
C23_NoTimerWhenQueueEmpty ==
    (/\ pendingComponentCalls = <<>>
     /\ ~isProcessingPendingCalls
     /\ drains = {})
    => warningIntervalId = null /\ activeIntervals = 0

\* C24 (stall reporter armed while work is queued).  At most one interval is
\* live, warningIntervalId is its handle exactly when there is one, and
\* whenever the queue is not empty there is one; so also when a call is
\* queued while the drain is suspended in the execution of the call that
\* was the last in the queue.
C24_TimerWhileQueued ==
    /\ activeIntervals <= 1
    /\ (warningIntervalId # null) <=> (activeIntervals = 1)
    /\ pendingComponentCalls # <<>> => warningIntervalId # null

\* Call 1 was the only call made when it started; call 2 was queued while
\* the drain is suspended in a callback of call 1, and the timer is armed.
C24_Witness ==
    /\ callsAtStart[1] = 1
    /\ \E fr \in drains : fr.call = 1 /\ fr.at = "callback"
    /\ pendingComponentCalls = <<2>>
    /\ warningIntervalId # null

\* C25 (ledger entries belong to queued calls).  With no drain in progress,
\* every key that promiseCompletionStatus has is the key of a call that is
\* in the queue and has a wait-promise; so the ledger has no entry of a call
\* that was executed or flushed, whenever its wait-promise settles.
C25_LedgerKeysAreQueued ==
    (~isProcessingPendingCalls /\ drains = {})
    => \A k \in CallKeys :
           statusHas(Mgr, k)
           => \E id \in Range(pendingComponentCalls) :
                  /\ callKeyOf(calls[id]) = k
                  /\ calls[id].waitForPromise # undefined

\* C26 (ledger transitions are monotone).  The handler of a settled
\* wait-promise writes its call's key only when the ledger has no entry for
\* it (the write is the first thing the handler does, so the value it
\* replaces is the one before the step), and no step changes an entry from
\* one status to another.
C26_Step ==
    /\ \A id \in reactions \ reactions' :
           ~statusHas(Mgr, callKeyOf(calls[id]))
    /\ \A k \in CallKeys :
           (promiseCompletionStatus[k] # ABSENT /\ promiseCompletionStatus'[k] # ABSENT)
           => promiseCompletionStatus'[k] = promiseCompletionStatus[k]

C26_LedgerMonotone == [][C26_Step]_vars

\* C27 (readiness is monotone).  A call that is in the queue and satisfies
\* the readiness predicate (a callback for its class, its data factory if it
\* has a data hash, ledger success if it has a wait-promise), and that is
\* still in the queue after a step, still satisfies the predicate after it.
C27_Step ==
    \A id \in Range(pendingComponentCalls) \cap Range(pendingComponentCalls') :
        ~_isCallBlocked(Mgr, calls[id]) => ~_isCallBlocked(Mgr', calls[id])

C27_ReadinessMonotone == [][C27_Step]_vars

\* A call leaves the queue when the drain takes it to execute it or when a
\* flush drops it: a call that is not in the queue and was not started was
\* flushed.
Flushed(id) == id \in CallIds /\ ~Queued(id) /\ ~Started(id)

\* C28 (flushed observers stay pending).  The promise callComponent returned
\* for a call that a flush dropped, the failing head included, is neither
\* resolved nor rejected in any later state; and calls are dropped only by a
\* flush, which threw ScriptLoadFailed.
C28_FlushedStayPending ==
    /\ \A id \in CallIds :
           Flushed(id) => callPromise[id] = "pending" /\ callValue[id] = undefined
    /\ (\E id \in CallIds : Flushed(id))
       => \E t \in Range(thrown) : t.error = "ScriptLoadFailed"

\* The failing head and the call behind it were flushed; the wait-promise of
\* the second fulfilled and its handler ran after the flush; both promises
\* are pending.
C28_Witness ==
    /\ Len(calls) = 2
    /\ Flushed(1) /\ Flushed(2)
    /\ WaitState(1) = "rejected"
    /\ WaitState(2) = "fulfilled"
    /\ reactions = {}
    /\ drains = {}
    /\ callPromise = <<"pending", "pending">>

\* The step is a flush: a drain threw ScriptLoadFailed.
FlushStep ==
    /\ Len(thrown') = Len(thrown) + 1
    /\ thrown'[Len(thrown')].error = "ScriptLoadFailed"

\* C29 (flush scope).  A flush happens only with a call at the head of the
\* queue whose own wait-promise is rejected: it drops that call and the calls
\* behind it, and no call whose wait-promise is pending or fulfilled is
\* dropped as the head because of the failure of a call queued after it.
C29_Step ==
    FlushStep
    => /\ pendingComponentCalls # <<>>
       /\ thrown'[Len(thrown')].call = Head(pendingComponentCalls)
       /\ WaitState(Head(pendingComponentCalls)) = "rejected"

C29_FlushOnlyAtFailedHead == [][C29_Step]_vars

\* C30 (re-entrant calls from a callback).  A callback's call of
\* registerComponent, registerComponentData or callComponent is a step taken
\* while the drain is suspended in the execution.
\*  (a) While a drain is suspended there is one drain only, the guard stays
\*      set, and a step that does not move the execution on (a registration,
\*      an enqueue, a handler of a wait-promise) starts no execution, invokes
\*      no callback and leaves the suspended drain as it is.
\*  (b) An execution starts, while a drain is suspended, only in the step in
\*      which that drain resumes after the chain of its call has completed.
\*  (c) In that step the outer drain goes on with the queue as it is then,
\*      including what the callbacks registered and queued: a head that is
\*      ready is taken off the queue and started, in queue order; otherwise
\*      nothing starts.
C30_Step ==
    drains # {}
    => /\ Cardinality(drains) = 1
       /\ isProcessingPendingCalls
       /\ \A fr \in drains :
             fr \in drains'
             => /\ drains' = drains
                /\ started' = started
                /\ invoked' = invoked
                /\ isProcessingPendingCalls'
       /\ started' # started
          => \E fr \in drains : fr.at = "return" /\ fr \notin drains'
       /\ \A fr \in drains :
             (fr.at = "return" /\ fr \notin drains')
             => IF /\ pendingComponentCalls # <<>>
                   /\ ~headFailed(Mgr, calls[Head(pendingComponentCalls)])
                   /\ ~_isCallBlocked(Mgr, calls[Head(pendingComponentCalls)])
                THEN /\ started' = Append(started, Head(pendingComponentCalls))
                     /\ pendingComponentCalls' = Tail(pendingComponentCalls)
                     /\ \E nx \in drains' : nx.call = Head(pendingComponentCalls)
                ELSE /\ started' = started
                     /\ drains' = {}
                     /\ ~isProcessingPendingCalls'

C30_ReentrantCallsDeferred == [][C30_Step]_vars

\* Call 2 was queued after call 1 had started, and both were executed in
\* order; the one registration made is what started call 1, no handler of a
\* wait-promise and no envelope requested a drain, so call 2 was started by
\* the drain that executed call 1.
C30_Witness ==
    /\ started = <<1, 2>>
    /\ callsAtStart[1] = 1
    /\ calls[1].waitForPromise = undefined
    /\ calls[2].waitForPromise = undefined
    /\ envelopes = 0
    /\ Len(components["x"]) + Len(components["y"]) = 1
    /\ \A k \in DataKeys : componentInputs[k] = undefined

\* C38 (callback list fixed at execution start).  The callbacks invoked for
\* a call are among those its class had when the execution started: there
\* are no more invocations than the list was long then.
C38_ChainBoundedByListAtStart ==
    \A id \in Range(started) : Len(InvocationsOf(id)) <= fnsAtStart[id]

\* C31 (envelope stylesheet errors are logged, not propagated).  The step
\* that ingests an envelope whose script descriptors are in order throws no
\* BadTag, whatever its stylesheet descriptors are; after it every script
\* the envelope fetches is marked loaded (its node appended now or before),
\* and every call of the envelope has been made.
C31_Step ==
    envelopes' = envelopes + 1
    => LET inputs == ingested'[envelopes']
       IN  (\A tag \in Range(inputs.jsTags__toFetch) : tag.tag = "script")
           => /\ \A n \in (Len(thrown) + 1)..Len(thrown') :
                     thrown'[n].error # "BadTag"
              /\ \A tag \in Range(inputs.jsTags__toFetch) :
                     tag.url # undefined
                     => /\ tag.url \in loadedJs'
                        /\ tag.url \in Range(body')
              /\ Len(calls') = Len(calls) + Len(inputs.componentJsCalls)

C31_StylesheetErrorsLogged == [][C31_Step]_vars

\* C32 (missing instance elements).
\*  (a) The step that starts a call whose instance has no element takes the
\*      call off the queue and invokes neither a callback nor a data factory:
\*      the execution fails with NoElements.
\*  (b) The step in which the drain resumes after that failure rejects the
\*      call's promise and goes on: a ready head is started.
\*  (c) In every later state, also after elements of the instance have been
\*      inserted, the call is not in the queue, has started once, and has no
\*      callback and no factory invocation; its promise stays rejected.
C32_Inv ==
    \A id \in CallIds :
        (\/ callValue[id] = "NoElements"
         \/ \E fr \in drains : fr.call = id /\ fr.outcome = "NoElements")
        => /\ ~Queued(id)
           /\ Len(SelectSeq(started, LAMBDA s : s = id)) = 1
           /\ InvocationsOf(id) = <<>>
           /\ \A d \in Range(dataCalls) : d.call # id
           /\ callValue[id] = "NoElements" => callPromise[id] = "rejected"

C32_Step ==
    /\ \A id \in Range(pendingComponentCalls) :
           (started' = Append(started, id) /\ calls[id].compId \notin elements)
           => /\ id \notin Range(pendingComponentCalls')
              /\ invoked' = invoked
              /\ dataCalls' = dataCalls
              /\ Frame(id, 0, "{}", "return", "NoElements") \in drains'
    /\ \A fr \in drains :
           (fr.outcome = "NoElements" /\ fr \notin drains')
           => /\ callPromise'[fr.call] = "rejected"
              /\ callValue'[fr.call] = "NoElements"
              /\ (/\ pendingComponentCalls # <<>>
                  /\ ~_isCallBlocked(Mgr, calls[Head(pendingComponentCalls)]))
                 => started' = Append(started, Head(pendingComponentCalls))

C32_MissingElementsRejected == [](C32_Inv) /\ [][C32_Step]_vars

\* A call with a data hash failed with NoElements; the element of its
\* instance was inserted afterwards; the call behind it was executed to the
\* end, and the manager is idle.
C32_Witness ==
    /\ Len(calls) = 2
    /\ callValue[1] = "NoElements"
    /\ calls[1].jsVarsHash # null
    /\ calls[1].compId \in elements
    /\ callPromise[2] = "resolved"
    /\ Idle


\* C33 (the stall reporter is observational).  A timer tick changes nothing
\* of the manager: the queue, the ledger, the registries, the loaded sets,
\* the guard and the timer handle are as before, and so is everything else
\* but the record of what the tick reported.  The tick reports exactly when
\* some queued call is blocked; the report counts the blocked calls and
\* names the one queued first; with no blocked call it reports nothing.
C33_Step ==
    diagnostic' # diagnostic
    => LET blocked == {id \in Range(pendingComponentCalls) :
                           _isCallBlocked(Mgr, calls[id])}
       IN  /\ UNCHANGED <<components, componentInputs, pendingComponentCalls,
                          isProcessingPendingCalls, warningIntervalId,
                          promiseCompletionStatus, loadedJs, loadedCss, calls,
                          callPromise, promises, reactions, drains, elements,
                          body, head, onloadFired, envelopes, started, invoked,
                          thrown, pendingScripts, entries, waits, returned,
                          ingested, dataCalls, lastResult, callValue,
                          activeIntervals, callsAtStart, fnsAtStart,
                          onerrorFired>>
           /\ diagnostic'.count = Cardinality(blocked)
           /\ diagnostic'.count > 0 <=> blocked # {}
           /\ blocked # {}
              => /\ diagnostic'.oldest \in blocked
                 /\ \A id \in blocked : diagnostic'.oldest <= id
           /\ blocked = {} => diagnostic'.oldest = 0

C33_ReporterObservational == [][C33_Step]_vars

\* The last tick reported two blocked calls and named the first of them.
C33_Witness ==
    /\ diagnostic.count = 2
    /\ diagnostic.oldest = 1
    /\ pendingComponentCalls = <<1, 2>>
    /\ warningIntervalId # null


\* C34 (registrations do not touch the queue directly).  A step that
\* registers a callback appends it to the list of one class and leaves the
\* other lists and the factories alone; a step that registers a data factory
\* sets one binding and leaves the callback lists alone.  Neither queues a
\* call nor changes the loaded sets, the document or the wait-promises.  When
\* the drain guard is held, the queue, the ledger, the timer and the started
\* calls are unchanged as well.  Otherwise the queue changes only as a drain
\* changes it: it stays, loses its head, or is emptied; the ledger only loses
\* keys; the timer is only cleared.
C34_IsRegistration ==
    \/ components' # components
    \/ componentInputs' # componentInputs /\ envelopes' = envelopes
                                          /\ ingested' = ingested

C34_Step ==
    C34_IsRegistration
    => /\ components' # components
          => /\ componentInputs' = componentInputs
             /\ \E c \in Classes :
                   /\ Len(components'[c]) = Len(components[c]) + 1
                   /\ SubSeq(components'[c], 1, Len(components[c])) = components[c]
                   /\ \A d \in Classes \ {c} : components'[d] = components[d]
       /\ componentInputs' # componentInputs
          => /\ components' = components
             /\ Cardinality({k \in DOMAIN componentInputs :
                                componentInputs'[k] # componentInputs[k]}) = 1
       /\ UNCHANGED <<calls, loadedJs, loadedCss, body, head, pendingScripts,
                      entries, promises, reactions, elements, onloadFired>>
       /\ isProcessingPendingCalls
          => UNCHANGED <<pendingComponentCalls, promiseCompletionStatus,
                         warningIntervalId, activeIntervals, started, invoked,
                         callPromise, drains, thrown>>
       /\ pendingComponentCalls' \in
              {pendingComponentCalls, <<>>} \cup
              (IF pendingComponentCalls # <<>>
               THEN {Tail(pendingComponentCalls)} ELSE {})
       /\ \A k \in CallKeys :
              promiseCompletionStatus'[k] \in {promiseCompletionStatus[k], ABSENT}
       /\ warningIntervalId' \in {warningIntervalId, null}
       /\ activeIntervals' <= activeIntervals

C34_RegistrationsLeaveQueue == [][C34_Step]_vars

\* A callback was registered while a call was being executed (its class has
\* more callbacks now than when the execution started) and another call of
\* the class waited in the queue: the guard is held and the queue kept the
\* call.
C34_Witness ==
    /\ isProcessingPendingCalls
    /\ \E fr \in drains, id \in Range(pendingComponentCalls) :
           /\ calls[id].compClsId = calls[fr.call].compClsId
           /\ fnsAtStart[fr.call] < Len(components[calls[fr.call].compClsId])
           /\ ~_isCallBlocked(Mgr, calls[id])

\* C35 (waitFor only waits).
\*  (a) A waitForScriptsToLoad step appends no node, adds no url to a loaded
\*      set and leaves the queue and the ledger alone; when every url of the
\*      list is loaded for the kind it creates no waiter and its promise is
\*      resolved; when some url is not, its promise is pending.
\*  (b) A promise it returned is resolved only when every url of its list
\*      has been marked loaded for its kind.
C35_Step ==
    AssetCall("waitForScriptsToLoad")
    => LET type == returned'.arg[1]
           urls == returned'.arg[2]
       IN  /\ UNCHANGED <<body, head, loadedJs, loadedCss,
                          pendingComponentCalls, promiseCompletionStatus>>
           /\ type \in Kinds
              => /\ (\A u \in Range(urls) : isScriptLoaded(Mgr, type, u))
                    => /\ entries' = entries
                       /\ pendingScripts' = pendingScripts
                       /\ returned'.promise = "resolved"
                 /\ (\E u \in Range(urls) : ~isScriptLoaded(Mgr, type, u))
                    => returned'.promise = "pending"

C35_Inv ==
    \A i \in 1..Len(waits) :
        (waits[i].exc = "none" /\ \A e \in waits[i].entries : entries[e])
        => \A u \in Range(waits[i].urls) : isScriptLoaded(Mgr, waits[i].type, u)

C35_WaitForOnlyWaits == [](C35_Inv) /\ [][C35_Step]_vars


\* C36 (no lost wake-up).  With envelopes, registrations and the settling of
\* the envelopes' promises as the only triggers: whenever no drain is running
\* or suspended and the queue is not empty, the call at the head is blocked
\* (a callback, its data factory or the success of its wait-promise is
\* missing from what the manager has recorded).
C36_NoLostWakeup ==
    (/\ drains = {}
     /\ ~isProcessingPendingCalls
     /\ pendingComponentCalls # <<>>)
    => _isCallBlocked(Mgr, calls[Head(pendingComponentCalls)])


\* The first call was executed to the end; the second, queued by a later
\* envelope, is at the head and blocked, and nothing is running.
C36_Witness ==
    /\ Len(calls) = 2
    /\ callPromise[1] = "resolved"
    /\ pendingComponentCalls = <<2>>
    /\ calls[2].waitForPromise \in EnvPromises
    /\ _isCallBlocked(Mgr, calls[2])
    /\ Idle
    /\ ~isProcessingPendingCalls


\* C37 (flush only on the head's own failure).
\*  (a) A flush happens only when the call at the head has a wait-promise
\*      that is rejected and whose own handler has recorded the rejection.
\*  (b) A call whose wait-promise is pending starts only on the success of
\*      the wait-promise of another call with its key, never on a rejection
\*      recorded for one.
C37_Step ==
    /\ FlushStep
       => /\ pendingComponentCalls # <<>>
          /\ LET h == Head(pendingComponentCalls)
             IN  /\ WaitState(h) = "rejected"
                 /\ h \notin reactions'
    /\ \A id \in Range(pendingComponentCalls) :
           (/\ started' = Append(started, id)
            /\ WaitState(id) = "pending")
           => \E other \in CallIds \ {id} :
                  /\ callKeyOf(calls[other]) = callKeyOf(calls[id])
                  /\ WaitState(other) = "fulfilled"

C37_FlushOnlyOnOwnFailure == [][C37_Step]_vars


\* C39 (the envelope wait-promise never rejects).  No combined promise that
\* _loadComponentScripts attached to an envelope's calls is rejected, also
\* after a script it waits for has failed to load: it stays pending.  With
\* envelopes as the only source of calls, every ledger entry is a success
\* (null) and no drain has flushed the queue.
C39_EnvelopePromiseNeverRejects ==
    /\ \A p \in EnvPromises : promises[p].state # "rejected"
    /\ \A p \in EnvPromises :
           (promises[p].awaits \cap onerrorFired # {}) => promises[p].state = "pending"
    /\ \A k \in CallKeys : promiseCompletionStatus[k] \in {ABSENT, null}
    /\ \A t \in Range(thrown) : t.error # "ScriptLoadFailed"

\* The script of an envelope failed to load: the envelope's promise is
\* pending and its handlers have not run; its call is in the queue with its
\* callback and data registered, and no drain is running.
C39_Witness ==
    /\ onerrorFired # {}
    /\ \E id \in Range(pendingComponentCalls) :
           /\ calls[id].waitForPromise \in EnvPromises
           /\ promises[calls[id].waitForPromise].awaits \cap onerrorFired # {}
           /\ promises[calls[id].waitForPromise].state = "pending"
           /\ ~noCallbacks(Mgr, calls[id].compClsId)
           /\ ~noDataFactory(Mgr, calls[id].compClsId, calls[id].jsVarsHash)
           /\ id \in reactions
    /\ drains = {}
    /\ ~isProcessingPendingCalls


\* C40 (the guard is always released).  Between jobs, whenever no drain is
\* suspended at the await of an execution, isProcessingPendingCalls is
\* false: the drain has reset it on each of its exits (empty queue, blocked
\* head, flush, and the loop's end after a failed callback).
C40_GuardReleased ==
    drains = {} => ~isProcessingPendingCalls

\* One call was executed and its callback failed, a later call was flushed
\* at the head, and the guard is free with no drain left.
C40_Witness ==
    /\ Len(calls) = 2
    /\ callPromise[1] = "rejected"
    /\ Flushed(2)
    /\ \E t \in Range(thrown) : t.error = "ScriptLoadFailed" /\ t.call = 2
    /\ drains = {}
    /\ ~isProcessingPendingCalls

====
